---- MODULE Spec2Model ----
(***************************************************************************)
(* Model of simdpp/core/insert.h: the per-backend lane insert              *)
(* (insert<id>(a, x)) and the vector concatenation (combine(a1, a2)).      *)
(*                                                                         *)
(* A vector is a record [kind, bits, bytes]: its element kind ("uint",     *)
(* "int", "float"), its element width in bits and its bit pattern as a     *)
(* little-endian sequence of bytes (16 bytes for one 128-bit register).    *)
(* A scalar is its bit pattern as a little-endian sequence of bytes, so a  *)
(* 64-bit value is 8 bytes; 8- and 16-bit arithmetic is done on integers.  *)
(***************************************************************************)
EXTENDS Integers, Sequences, FiniteSets, TLC

(* ------------------------------------------------------------------ *)
(* Bounds of the model                                                 *)
(* ------------------------------------------------------------------ *)

\* number of operations applied one after another in one run
MaxOps == 2

(* ------------------------------------------------------------------ *)
(* Backends (the SIMDPP_USE_* / SIMDPP_SSE_32_BITS configurations)     *)
(* ------------------------------------------------------------------ *)

Archs ==
    {"NULL", "SSE4_1", "SSE4_1_32", "SSE2", "SSE2_32", "NEON", "NEON_FLT_SP", "ALTIVEC"}

SIMDPP_USE_NULL(A) == A = "NULL"

SIMDPP_USE_SSE4_1(A) == A \in {"SSE4_1", "SSE4_1_32"}

SIMDPP_USE_SSE2(A) == A \in {"SSE2", "SSE2_32", "SSE4_1", "SSE4_1_32"}

SIMDPP_SSE_32_BITS(A) == A \in {"SSE2_32", "SSE4_1_32"}

SIMDPP_USE_NEON(A) == A \in {"NEON", "NEON_FLT_SP"}

SIMDPP_USE_NEON_FLT_SP(A) == A = "NEON_FLT_SP"

SIMDPP_USE_ALTIVEC(A) == A = "ALTIVEC"

(* ------------------------------------------------------------------ *)
(* Bit patterns                                                        *)
(* ------------------------------------------------------------------ *)

\* bytes of one element of a vector
NBytes(a) == a.bits \div 8

\* number of lanes of a vector
Lanes(a) == Len(a.bytes) \div NBytes(a)

\* lane j of a vector, as its bit pattern
el(a, j) == SubSeq(a.bytes, j * NBytes(a) + 1, (j + 1) * NBytes(a))

\* a.el(id) = x : the element write of the scalar backend
SetEl(a, id, x) ==
    [a EXCEPT !.bytes =
        [i \in 1..Len(a.bytes) |->
            IF (i - 1) \div NBytes(a) = id
            THEN x[((i - 1) % NBytes(a)) + 1]
            ELSE a.bytes[i]]]

\* a vector of another element type over the same bit pattern
Cast(kind, bits, a) == [kind |-> kind, bits |-> bits, bytes |-> a.bytes]

\* a scalar of another type of the same size over the same bit pattern
bit_cast(x) == x

\* integer value of a 1- or 2-byte bit pattern
ToInt(x) == IF Len(x) = 1 THEN x[1] ELSE x[1] + 256 * x[2]

\* conversion of an int to uint16_t
ToU16(n) == <<n % 256, (n \div 256) % 256>>

\* conversion of an int to uint8_t
ToU8(n) == <<n % 256>>

RECURSIVE BitAnd(_, _)
BitAnd(m, n) ==
    IF m = 0 \/ n = 0 THEN 0
    ELSE (m % 2) * (n % 2) + 2 * BitAnd(m \div 2, n \div 2)

RECURSIVE BitOr(_, _)
BitOr(m, n) ==
    IF m = 0 THEN n
    ELSE IF n = 0 THEN m
    ELSE (IF m % 2 = 1 \/ n % 2 = 1 THEN 1 ELSE 0) + 2 * BitOr(m \div 2, n \div 2)

\* x << 8 on an int
Shl8(n) == n * 256

\* truncation of a wider unsigned scalar to its low n bytes: uint32_t(x), x & 0xffff
Trunc(x, n) == SubSeq(x, 1, n)

\* x >> (8 * n) on an unsigned scalar, then truncated to its low m bytes
ShrTrunc(x, n, m) ==
    [i \in 1..m |-> IF i + n <= Len(x) THEN x[i + n] ELSE 0]

(* ------------------------------------------------------------------ *)
(* Register-level primitives                                           *)
(* ------------------------------------------------------------------ *)

\* the register a with the bytes xs written at byte offset off
SetBytes(a, off, xs) ==
    [a EXCEPT !.bytes =
        [i \in 1..Len(a.bytes) |->
            IF i > off /\ i <= off + Len(xs) THEN xs[i - off] ELSE a.bytes[i]]]

\* the 16 zero bytes of an empty register
ZeroReg(kind, bits) == [kind |-> kind, bits |-> bits, bytes |-> [i \in 1..16 |-> 0]]

\* PINSRB: the low 8 bits of x go to byte lane imm[3:0]
_mm_insert_epi8(a, x, imm) == SetBytes(a, imm % 16, ToU8(x))

\* PEXTRW: the zero-extended 16-bit lane imm[2:0]
_mm_extract_epi16(a, imm) ==
    a.bytes[2 * (imm % 8) + 1] + 256 * a.bytes[2 * (imm % 8) + 2]

\* PINSRW: the low 16 bits of r go to 16-bit lane imm[2:0]
_mm_insert_epi16(a, r, imm) == SetBytes(a, 2 * (imm % 8), ToU16(r))

\* PINSRD: x goes to 32-bit lane imm[1:0]
_mm_insert_epi32(a, x, imm) == SetBytes(a, 4 * (imm % 4), x)

\* PINSRQ: x goes to 64-bit lane imm[0]
_mm_insert_epi64(a, x, imm) == SetBytes(a, 8 * (imm % 2), x)

\* MOVD: x in 32-bit lane 0, the rest of the register zero
_mm_cvtsi32_si128(x) == SetBytes(ZeroReg("int", 32), 0, x)

\* MOVQ: x in 64-bit lane 0, the rest of the register zero
_mm_cvtsi64_si128(x) == SetBytes(ZeroReg("int", 64), 0, x)

\* vsetq_lane_u8/u16/u32/u64/f32: x goes to lane id of a
vsetq_lane(x, a, id) == SetBytes(a, id * NBytes(a), x)

\* zip4_lo: interleaves the two low 32-bit lanes of a and b: [a0, b0, a1, b1]
zip4_lo(a, b) ==
    [kind |-> "int", bits |-> 64,
     bytes |-> SubSeq(a.bytes, 1, 4) \o SubSeq(b.bytes, 1, 4)
               \o SubSeq(a.bytes, 5, 8) \o SubSeq(b.bytes, 5, 8)]

\* shuffle1<s0,s1>(a, b) on 64-bit lanes: [a[s0], b[s1]]
shuffle1(s0, s1, a, b) ==
    [kind |-> "uint", bits |-> 64,
     bytes |-> SubSeq(a.bytes, 8 * s0 + 1, 8 * s0 + 8)
               \o SubSeq(b.bytes, 8 * s1 + 1, 8 * s1 + 8)]

\* detail::mem_block<V> ax(a): the lanes of a in an aligned local array
mem_block(a) == [j \in 0..(Lanes(a) - 1) |-> el(a, j)]

\* a = ax: the vector reloaded from the local array
mem_block_load(a, ax) ==
    [a EXCEPT !.bytes =
        [i \in 1..Len(a.bytes) |->
            ax[(i - 1) \div NBytes(a)][((i - 1) % NBytes(a)) + 1]]]

\* detail::mem_block<V> ax(a); ax[id] = x; a = ax;
insert_mem_block(a, id, x) ==
    mem_block_load(a, [mem_block(a) EXCEPT ![id] = x])

(* ------------------------------------------------------------------ *)
(* insert<id>(a, x)                                                    *)
(* ------------------------------------------------------------------ *)

\* variant: the masks of the two cases exchanged
merge8_keep(r, x, id) ==
    ToInt(ToU16(IF id % 2 = 1
                THEN BitOr(BitAnd(r, 65280), Shl8(x))
                ELSE BitOr(BitAnd(r, 255), x)))

\* variant: x ORed into the lane without clearing the byte it replaces
merge8_nomask(r, x, id) ==
    ToInt(ToU16(IF id % 2 = 1 THEN BitOr(r, Shl8(x)) ELSE BitOr(r, x)))

\* r = (r & 0x00ff) | (x << 8) for odd id, r = (r & 0xff00) | x for even id
merge8(r, x, id) ==
    ToInt(ToU16(IF id % 2 = 1
                THEN BitOr(BitAnd(r, 255), Shl8(x))
                ELSE BitOr(BitAnd(r, 65280), x)))

\* variant: the merged lane written back at id instead of id/2
insert_u8_SSE2_wronglane(a, id, x) ==
    LET r == _mm_extract_epi16(a, id \div 2)
    IN  _mm_insert_epi16(a, merge8(r, ToInt(x), id), id)

\* the SSE2 branch of the 8-bit insert
insert_u8_SSE2(a, id, x) ==
    LET r == _mm_extract_epi16(a, id \div 2)
    IN  _mm_insert_epi16(a, merge8(r, ToInt(x), id), id \div 2)

insert_u8(A, id, a, x) ==
    IF SIMDPP_USE_NULL(A) THEN SetEl(a, id, x)
    ELSE IF SIMDPP_USE_SSE4_1(A) THEN _mm_insert_epi8(a, ToInt(x), id)
    ELSE IF SIMDPP_USE_SSE2(A) THEN insert_u8_SSE2(a, id, x)
    ELSE IF SIMDPP_USE_NEON(A) THEN vsetq_lane(x, a, id)
    ELSE insert_mem_block(a, id, x)

insert_u16(A, id, a, x) ==
    IF SIMDPP_USE_NULL(A) THEN SetEl(a, id, x)
    ELSE IF SIMDPP_USE_SSE2(A) THEN _mm_insert_epi16(a, ToInt(x), id)
    ELSE IF SIMDPP_USE_NEON(A) THEN vsetq_lane(x, a, id)
    ELSE insert_mem_block(a, id, x)

\* variant: the two halves of x exchanged
insert_u32_SSE2_swapped(A, id, a, x) ==
    LET lo == Trunc(x, 2)
        hi == ShrTrunc(x, 2, 2)
        a1 == Cast("uint", 16, a)
        a2 == insert_u16(A, id * 2, a1, hi)
        a3 == insert_u16(A, id * 2 + 1, a2, lo)
    IN  Cast("uint", 32, a3)

\* the SSE2 branch of the 32-bit insert: two 16-bit inserts
insert_u32_SSE2(A, id, a, x) ==
    LET lo == Trunc(x, 2)
        hi == ShrTrunc(x, 2, 2)
        a1 == Cast("uint", 16, a)
        a2 == insert_u16(A, id * 2, a1, lo)
        a3 == insert_u16(A, id * 2 + 1, a2, hi)
    IN  Cast("uint", 32, a3)

insert_u32(A, id, a, x) ==
    IF SIMDPP_USE_NULL(A) THEN SetEl(a, id, x)
    ELSE IF SIMDPP_USE_SSE4_1(A) THEN _mm_insert_epi32(a, x, id)
    ELSE IF SIMDPP_USE_SSE2(A) THEN insert_u32_SSE2(A, id, a, x)
    ELSE IF SIMDPP_USE_NEON(A) THEN vsetq_lane(x, a, id)
    ELSE insert_mem_block(a, id, x)

\* the SSE4.1 branch of the 64-bit insert in 32-bit mode: two 32-bit inserts
insert_u64_SSE4_1_32(A, id, a, x) ==
    LET a0 == Cast("uint", 32, a)
        a1 == insert_u32(A, id * 2, a0, Trunc(x, 4))
        a2 == insert_u32(A, id * 2 + 1, a1, ShrTrunc(x, 4, 4))
    IN  Cast("uint", 64, a2)

\* variant: the operands of zip4_lo exchanged, the 32-bit move used in 64-bit mode
insert_u64_vx_zipswapped(A, x) ==
    IF SIMDPP_SSE_32_BITS(A)
    THEN LET va == _mm_cvtsi32_si128(Trunc(x, 4))
             vb == _mm_cvtsi32_si128(ShrTrunc(x, 4, 4))
         IN  zip4_lo(vb, va)
    ELSE _mm_cvtsi32_si128(Trunc(x, 4))

\* the vector vx of the SSE2 branch of the 64-bit insert
insert_u64_vx(A, x) ==
    IF SIMDPP_SSE_32_BITS(A)
    THEN LET va == _mm_cvtsi32_si128(Trunc(x, 4))
             vb == _mm_cvtsi32_si128(ShrTrunc(x, 4, 4))
         IN  zip4_lo(va, vb)
    ELSE _mm_cvtsi64_si128(x)

\* variant: the kept lane of a taken from the lane that is replaced
insert_u64_SSE2_samelane(A, id, a, x) ==
    LET vx == insert_u64_vx(A, x)
    IN  IF id = 0 THEN shuffle1(0, 0, vx, a) ELSE shuffle1(1, 0, a, vx)

\* the SSE2 branch of the 64-bit insert: a shuffle of vx and a
insert_u64_SSE2(A, id, a, x) ==
    LET vx == insert_u64_vx(A, x)
    IN  IF id = 0 THEN shuffle1(0, 1, vx, a) ELSE shuffle1(0, 0, a, vx)

insert_u64(A, id, a, x) ==
    IF SIMDPP_USE_NULL(A) THEN SetEl(a, id, x)
    ELSE IF SIMDPP_USE_SSE4_1(A)
         THEN IF SIMDPP_SSE_32_BITS(A)
              THEN insert_u64_SSE4_1_32(A, id, a, x)
              ELSE _mm_insert_epi64(a, x, id)
    ELSE IF SIMDPP_USE_SSE2(A) THEN insert_u64_SSE2(A, id, a, x)
    ELSE IF SIMDPP_USE_NEON(A) THEN vsetq_lane(x, a, id)
    ELSE insert_mem_block(a, id, x)

\* float32x4: the NEON float lane set, else the integer insert on the bit pattern
insert_f32(A, id, a, x) ==
    IF SIMDPP_USE_NEON_FLT_SP(A) THEN vsetq_lane(x, a, id)
    ELSE Cast("float", 32,
              insert_u32(A, id, Cast("uint", 32, Cast("int", 32, a)), bit_cast(x)))

\* static_cast<int64_t>(x) of the doubles the model inserts: a value conversion
ValueToInt64(x) ==
    IF x = <<0,0,0,0,0,0,8,64>> THEN <<3,0,0,0,0,0,0,0>>
    ELSE <<0,0,0,0,0,0,0,128>>

\* variant: x converted by value instead of bit_cast
insert_f64_valueconv(A, id, a, x) ==
    Cast("float", 64,
         insert_u64(A, id, Cast("uint", 64, Cast("int", 64, a)), ValueToInt64(x)))

\* float64x2: the integer insert on the bit pattern
insert_f64(A, id, a, x) ==
    Cast("float", 64,
         insert_u64(A, id, Cast("uint", 64, Cast("int", 64, a)), bit_cast(x)))

\* overload resolution of insert<id>(a, x) on the type of a
insert(A, id, a, x) ==
    IF a.kind = "float"
    THEN IF a.bits = 32 THEN insert_f32(A, id, a, x) ELSE insert_f64(A, id, a, x)
    ELSE IF a.bits = 8 THEN insert_u8(A, id, a, x)
    ELSE IF a.bits = 16 THEN insert_u16(A, id, a, x)
    ELSE IF a.bits = 32 THEN insert_u32(A, id, a, x)
    ELSE insert_u64(A, id, a, x)

\* static_assert(id < 16, "Position out of range"): only the 8-bit insert has one
static_assert_ok(a, id) == (a.kind = "uint" /\ a.bits = 8) => id < 16

\* Whether the instantiation insert<id> on a vector like a compiles: the set of
\* the outcomes the build can produce. An out-of-range id that reaches an
\* intrinsic's immediate operand is rejected by some toolchains and masked by
\* others; an out-of-range id that reaches el(id), a mem_block index or the
\* if/else of the shuffle path is compiled.
Accepts(A, a, id) ==
    IF ~static_assert_ok(a, id) THEN {FALSE}
    ELSE IF id < Lanes(a) THEN {TRUE}
    ELSE IF SIMDPP_USE_NULL(A) \/ SIMDPP_USE_ALTIVEC(A) THEN {TRUE}
    ELSE IF a.bits = 64 /\ SIMDPP_USE_SSE2(A) /\ ~SIMDPP_USE_SSE4_1(A) THEN {TRUE}
    ELSE {TRUE, FALSE}

\* The vectors an accepted insert<id> can return. In range, the one vector the
\* backend's branch computes. Out of range: on the SSE backends what the branch
\* computes (the instructions use the low bits of the immediate, the shuffle
\* path takes its else branch); elsewhere the write is out of bounds
\* (undefined): the vector is untouched or any one lane is overwritten.
Results(A, id, a, x) ==
    IF id < Lanes(a) \/ SIMDPP_USE_SSE2(A) THEN {insert(A, id, a, x)}
    ELSE {a} \cup {SetEl(a, j, x) : j \in 0..(Lanes(a) - 1)}

(* ------------------------------------------------------------------ *)
(* combine(a1, a2)                                                     *)
(* ------------------------------------------------------------------ *)

\* detail::insn::i_combine<R>(a1, a2): a1 in the low half of R, a2 in the high half
i_combine(kind, bits, a1, a2) ==
    [kind |-> kind, bits |-> bits, bytes |-> a1.bytes \o a2.bytes]

\* a1.eval(): the value of an expression that is already a vector
eval(a) == a

\* variant: the operands exchanged
combine_uint_swapped(a1, a2) == i_combine("uint", a1.bits, eval(a2), eval(a1))

\* combine of uint8<N>, uint16<N>, uint32<N>, uint64<N>
combine_uint(a1, a2) == i_combine("uint", a1.bits, eval(a1), eval(a2))

\* variant: the operands exchanged
combine_int_swapped(a1, a2) ==
    Cast("int", a1.bits,
         i_combine("uint", a1.bits,
                   Cast("uint", a1.bits, eval(a2)), Cast("uint", a1.bits, eval(a1))))

\* combine of int8<N>, int16<N>, int32<N>, int64<N>
combine_int(a1, a2) ==
    Cast("int", a1.bits,
         i_combine("uint", a1.bits,
                   Cast("uint", a1.bits, eval(a1)), Cast("uint", a1.bits, eval(a2))))

\* combine of float32<N>, float64<N>
combine_float(a1, a2) == i_combine("float", a1.bits, eval(a1), eval(a2))

\* overload resolution of combine(a1, a2) on the type of its arguments
combine(a1, a2) ==
    IF a1.kind = "uint" THEN combine_uint(a1, a2)
    ELSE IF a1.kind = "int" THEN combine_int(a1, a2)
    ELSE combine_float(a1, a2)

(* ------------------------------------------------------------------ *)
(* Inputs                                                              *)
(* ------------------------------------------------------------------ *)

Vec(kind, bits, bytes) == [kind |-> kind, bits |-> bits, bytes |-> bytes]

\* 16 distinct bytes, high bits set in some
P1 == [i \in 1..16 |-> (37 * (i - 1) + 129) % 256]

P2 == [i \in 1..16 |-> (91 * (i - 1) + 7) % 256]

Zero16 == [i \in 1..16 |-> 0]

\* 32-bit lanes [1,2,3,4] and [5,6,7,8]
V1234 == <<1,0,0,0, 2,0,0,0, 3,0,0,0, 4,0,0,0>>

V5678 == <<5,0,0,0, 6,0,0,0, 7,0,0,0, 8,0,0,0>>

\* IEEE-754 bit patterns, little-endian
F64_1_5 == <<0,0,0,0,0,0,248,63>>

F64_m2_25 == <<0,0,0,0,0,0,2,192>>

F64_3_0 == <<0,0,0,0,0,0,8,64>>

F64_NaN == <<1,239,190,173,222,0,244,127>>

F32_1_5 == <<0,0,192,63>>

F32_m2_25 == <<0,0,16,192>>

F32_3_0 == <<0,0,64,64>>

F32_NaN == <<69,35,161,127>>

Types ==
    {<<"uint", 8>>, <<"uint", 16>>, <<"uint", 32>>, <<"uint", 64>>,
     <<"int", 8>>, <<"int", 16>>, <<"int", 32>>, <<"int", 64>>,
     <<"float", 32>>, <<"float", 64>>}

\* the input vectors of an element type
InputBytes(kind, bits) ==
    {P1}
    \cup (IF kind = "uint" /\ bits \in {8, 16, 64} THEN {Zero16} ELSE {})
    \cup (IF kind = "uint" /\ bits = 32 THEN {V1234, V5678} ELSE {})
    \cup (IF kind = "int" THEN {P2} ELSE {})
    \cup (IF kind = "float" /\ bits = 32
          THEN {F32_1_5 \o F32_m2_25 \o F32_NaN \o F32_3_0} ELSE {})
    \cup (IF kind = "float" /\ bits = 64 THEN {F64_1_5 \o F64_m2_25} ELSE {})

Inputs(kind, bits) == {Vec(kind, bits, b) : b \in InputBytes(kind, bits)}

\* the scalars inserted into a vector like a
Scalars(a) ==
    IF a.kind = "float"
    THEN IF a.bits = 32 THEN {F32_3_0, F32_NaN} ELSE {F64_3_0, F64_NaN}
    ELSE IF a.bits = 8 THEN {<<255>>, <<90>>}
    ELSE IF a.bits = 16 THEN {<<52, 18>>, <<255, 255>>}
    ELSE IF a.bits = 32 THEN {<<239, 190, 173, 222>>, <<0, 0, 0, 128>>}
    ELSE {<<239, 205, 171, 137, 103, 69, 35, 1>>, <<0, 0, 0, 0, 255, 255, 255, 255>>}

(* ------------------------------------------------------------------ *)
(* The state machine: operations applied one after another             *)
(* ------------------------------------------------------------------ *)

VARIABLES
    arch,   \* the backend the build selected
    v0,     \* the vector the run started from
    v,      \* the current vector
    last,   \* per lane, the scalar of the most recent in-range insert (<<>>: none)
    ok,     \* every insert so far had an in-range id
    call,   \* the most recent call: its kind, arguments and result
    nops    \* the number of calls so far

vars == <<arch, v0, v, last, ok, call, nops>>

NoCall == [op |-> "none", id |-> 0, x |-> <<>>, arg |-> <<>>, arg2 |-> <<>>, res |-> <<>>]

\* The builds of an element type: SIMDPP_SSE_32_BITS is read by the 64-bit insert
\* only and SIMDPP_USE_NEON_FLT_SP by the float32x4 insert only, so for the other
\* types the builds that differ in these flags alone are one build.
Builds(kind, bits) ==
    {A \in Archs :
        /\ SIMDPP_SSE_32_BITS(A) => bits = 64
        /\ SIMDPP_USE_NEON_FLT_SP(A) => (kind = "float" /\ bits = 32)}

Init ==
    /\ \E t \in Types :
        /\ arch \in Builds(t[1], t[2])
        /\ v0 \in Inputs(t[1], t[2])
    /\ v = v0
    /\ last = [j \in 0..(Lanes(v0) - 1) |-> <<>>]
    /\ ok = TRUE
    /\ call = NoCall
    /\ nops = 0

\* insert<id>(v, x), compiled and run; v becomes its result
Insert(id, x) ==
    /\ nops < MaxOps
    /\ v.kind \in {"uint", "float"}
    /\ TRUE \in Accepts(arch, v, id)
    /\ \E r \in Results(arch, id, v, x) :
        /\ v' = r
        /\ call' = [op |-> "insert", id |-> id, x |-> x, arg |-> v,
                    arg2 |-> <<>>, res |-> r]
    /\ last' = IF id < Lanes(v) THEN [last EXCEPT ![id] = x] ELSE last
    /\ ok' = (ok /\ id < Lanes(v))
    /\ nops' = nops + 1
    /\ UNCHANGED <<arch, v0>>

\* insert<id>(v, x), rejected when compiled: nothing runs
InsertRejected(id, x) ==
    /\ nops < MaxOps
    /\ v.kind \in {"uint", "float"}
    /\ FALSE \in Accepts(arch, v, id)
    /\ call' = [op |-> "rejected", id |-> id, x |-> x, arg |-> v,
                arg2 |-> <<>>, res |-> <<>>]
    /\ nops' = nops + 1
    /\ UNCHANGED <<arch, v0, v, last, ok>>

\* combine(v, a2): v is left as it is, the result is kept in call
Combine(a2) ==
    /\ nops < MaxOps
    /\ call' = [op |-> "combine", id |-> 0, x |-> <<>>, arg |-> v,
                arg2 |-> a2, res |-> combine(v, a2)]
    /\ nops' = nops + 1
    /\ UNCHANGED <<arch, v0, v, last, ok>>

Next ==
    \/ \E id \in 0..Lanes(v), x \in Scalars(v) : Insert(id, x)
    \/ \E id \in 0..Lanes(v), x \in Scalars(v) : InsertRejected(id, x)
    \/ \E a2 \in Inputs(v.kind, v.bits) : Combine(a2)

Spec == Init /\ [][Next]_vars

(* ------------------------------------------------------------------ *)
(* Properties                                                          *)
(* ------------------------------------------------------------------ *)

\* a with lane id replaced by x, lane by lane
RefInsert(a, id, x) ==
    [a EXCEPT !.bytes =
        SubSeq(a.bytes, 1, id * NBytes(a)) \o x
        \o SubSeq(a.bytes, (id + 1) * NBytes(a) + 1, Len(a.bytes))]

\* the 16-bit lane k of a register, as an integer
Lane16(a, k) == a.bytes[2 * k + 1] + 256 * a.bytes[2 * k + 2]

\* the most recent call is an accepted insert with an in-range id
InRangeInsert == call.op = "insert" /\ call.id < Lanes(call.arg)

\* C1: on every backend and for every integer element width, insert<id>(a, x)
\* with id < W returns a vector of the same type whose lane id is x and whose
\* other lanes are those of a: the vector the scalar fallback returns.
C1_InsertSetsLane ==
    (InRangeInsert /\ call.arg.kind = "uint") =>
        /\ call.res.kind = "uint"
        /\ call.res.bits = call.arg.bits
        /\ Len(call.res.bytes) = Len(call.arg.bytes)
        /\ el(call.res, call.id) = call.x
        /\ \A j \in 0..(Lanes(call.arg) - 1) :
              j # call.id => el(call.res, j) = el(call.arg, j)
        /\ call.res = insert("NULL", call.id, call.arg, call.x)

\* C1 witness: the narrow-merge backend put 0xFF in lane 5 of the all-zero byte vector
C1_Witness ==
    /\ arch = "SSE2"
    /\ InRangeInsert
    /\ call.arg = Vec("uint", 8, Zero16)
    /\ call.id = 5
    /\ call.x = <<255>>
    /\ call.res.bytes = <<0,0,0,0,0,255,0,0,0,0,0,0,0,0,0,0>>

\* C2: no insert instantiation with an out-of-range id (id >= W) is accepted
\* and run: every accepted insert has id < W.
C2_OutOfRangeRejected ==
    call.op = "insert" => call.id < Lanes(call.arg)

\* C3: combine(a1, a2) of two vectors of width N is a vector of the same element
\* type and of width 2N, whose lanes k < N are a1[k] and whose lanes N <= k < 2N
\* are a2[k - N].
C3_CombineConcatenates ==
    call.op = "combine" =>
        LET N == Lanes(call.arg)
        IN  /\ call.res.kind = call.arg.kind
            /\ call.res.bits = call.arg.bits
            /\ Lanes(call.res) = 2 * N
            /\ \A k \in 0..(N - 1) : el(call.res, k) = el(call.arg, k)
            /\ \A k \in N..(2 * N - 1) : el(call.res, k) = el(call.arg2, k - N)

\* C3 witness: combine([1,2,3,4], [5,6,7,8]) returned [1,2,3,4,5,6,7,8]
C3_Witness ==
    /\ call.op = "combine"
    /\ call.arg = Vec("uint", 32, V1234)
    /\ call.arg2 = Vec("uint", 32, V5678)
    /\ call.res = Vec("uint", 32, V1234 \o V5678)

\* C4: a floating-point insert that does not use a native float lane set
\* (float32x4 without NEON_FLT_SP, float64x2 everywhere) returns the float
\* vector whose bit pattern is the integer insert of the bit pattern of x into
\* the bit pattern of a: lane id holds exactly the bits of x (a NaN payload
\* included), every other lane the bits of a's lane.
C4_FloatInsertIsBitInsert ==
    (/\ InRangeInsert
     /\ call.arg.kind = "float"
     /\ ~(call.arg.bits = 32 /\ SIMDPP_USE_NEON_FLT_SP(arch))) =>
        /\ call.res.kind = "float"
        /\ call.res.bits = call.arg.bits
        /\ call.res.bytes =
              (IF call.arg.bits = 32
               THEN insert_u32(arch, call.id, Cast("uint", 32, call.arg), call.x)
               ELSE insert_u64(arch, call.id, Cast("uint", 64, call.arg), call.x)).bytes
        /\ el(call.res, call.id) = call.x
        /\ \A j \in 0..(Lanes(call.arg) - 1) :
              j # call.id => el(call.res, j) = el(call.arg, j)

\* C4 witness: insert<0>([1.5, -2.25], 3.0) returned [3.0, -2.25]
C4_Witness ==
    /\ InRangeInsert
    /\ call.arg = Vec("float", 64, F64_1_5 \o F64_m2_25)
    /\ call.id = 0
    /\ call.x = F64_3_0
    /\ call.res = Vec("float", 64, F64_3_0 \o F64_m2_25)

\* C5: combine of two signed vectors has the bit pattern of the unsigned combine
\* of the operands reinterpreted as unsigned, the element width of the operands
\* and twice their lanes.
C5_SignedCombineBits ==
    (call.op = "combine" /\ call.arg.kind = "int") =>
        /\ call.res.kind = "int"
        /\ call.res.bits = call.arg.bits
        /\ Lanes(call.res) = 2 * Lanes(call.arg)
        /\ call.res.bytes =
              combine_uint(Cast("uint", call.arg.bits, call.arg),
                           Cast("uint", call.arg.bits, call.arg2)).bytes

\* C5 witness: two different int32 vectors were combined
C5_Witness ==
    /\ call.op = "combine"
    /\ call.arg.kind = "int"
    /\ call.arg.bits = 32
    /\ call.arg.bytes = P1
    /\ call.arg2.bytes = P2
    /\ call.res.bytes = P1 \o P2

\* C6: insert is idempotent: inserting x at lane id again into the result of
\* insert<id>(a, x) returns that result.
C6_InsertIdempotent ==
    InRangeInsert => insert(arch, call.id, call.res, call.x) = call.res

\* C6 witness: an insert on the shuffle backend changed the vector
C6_Witness ==
    /\ arch = "SSE2"
    /\ InRangeInsert
    /\ call.arg.kind = "uint"
    /\ call.arg.bits = 64
    /\ call.res # call.arg

\* the most recent call is the SSE2 (pre-SSE4.1) 8-bit insert
Sse2Insert8 ==
    /\ InRangeInsert
    /\ SIMDPP_USE_SSE2(arch) /\ ~SIMDPP_USE_SSE4_1(arch)
    /\ call.arg.kind = "uint" /\ call.arg.bits = 8

\* C7: the SSE2 8-bit insert writes to 16-bit lane id/2 the lane it read with,
\* for odd id, its high byte replaced by x and its low byte kept, for even id
\* its low byte replaced and its high byte kept; the value stays within 16 bits
\* and byte lane (id xor 1) and every other 16-bit lane are unchanged.
C7_Sse2ByteMerge ==
    Sse2Insert8 =>
        LET id == call.id
            k == id \div 2
            r == Lane16(call.arg, k)
            m == Lane16(call.res, k)
            nb == IF id % 2 = 1 THEN id - 1 ELSE id + 1
        IN  /\ m = (IF id % 2 = 1
                    THEN (r % 256) + 256 * call.x[1]
                    ELSE 256 * (r \div 256) + call.x[1])
            /\ m \in 0..65535
            /\ el(call.res, nb) = el(call.arg, nb)
            /\ \A q \in 0..7 : q # k => Lane16(call.res, q) = Lane16(call.arg, q)

\* C7 witness: an odd and non-zero byte lane pair was merged with a new high byte
C7_Witness ==
    /\ Sse2Insert8
    /\ call.id = 5
    /\ call.arg.bytes = P1
    /\ call.x = <<90>>
    /\ Lane16(call.res, 2) = (Lane16(call.arg, 2) % 256) + 256 * 90

\* the most recent call took a half-width decomposition path
HalfWidthInsert ==
    /\ InRangeInsert
    /\ call.arg.kind = "uint"
    /\ \/ call.arg.bits = 32 /\ SIMDPP_USE_SSE2(arch) /\ ~SIMDPP_USE_SSE4_1(arch)
       \/ call.arg.bits = 64 /\ SIMDPP_USE_SSE4_1(arch) /\ SIMDPP_SSE_32_BITS(arch)

\* C8: on the half-width decomposition paths the low half of x is at narrow
\* lane 2*id and the high half at narrow lane 2*id+1 of the result, both
\* indices are lanes of the narrow vector, and the result is the direct wide
\* insert of x at lane id.
C8_HalfWidthDecomposition ==
    HalfWidthInsert =>
        LET id == call.id
            h == NBytes(call.arg) \div 2
            narrow == Cast("uint", call.arg.bits \div 2, call.res)
        IN  /\ 2 * id + 1 < Lanes(narrow)
            /\ el(narrow, 2 * id) = SubSeq(call.x, 1, h)
            /\ el(narrow, 2 * id + 1) = SubSeq(call.x, h + 1, 2 * h)
            /\ call.res = RefInsert(call.arg, id, call.x)

\* C8 witness: 0xDEADBEEF went into lane 3 of a 32-bit vector as two 16-bit inserts
C8_Witness ==
    /\ HalfWidthInsert
    /\ call.arg.bits = 32
    /\ call.id = 3
    /\ call.x = <<239, 190, 173, 222>>
    /\ SubSeq(call.res.bytes, 13, 16) = <<239, 190, 173, 222>>
    /\ call.res # call.arg

\* the most recent call is the SSE2 (pre-SSE4.1) 64-bit insert
Sse2Insert64 ==
    /\ InRangeInsert
    /\ SIMDPP_USE_SSE2(arch) /\ ~SIMDPP_USE_SSE4_1(arch)
    /\ call.arg.kind = "uint" /\ call.arg.bits = 64

\* C9: in the SSE2 64-bit insert the 64-bit lane 0 of vx is x (in 32-bit mode
\* its 32-bit lanes are [lo, hi, 0, 0]) and the result is [x, a[1]] for id = 0
\* and [a[0], x] for id = 1.
C9_Sse2ShuffleInsert ==
    Sse2Insert64 =>
        LET vx == insert_u64_vx(arch, call.x)
            a == call.arg.bytes
        IN  /\ SubSeq(vx.bytes, 1, 8) = call.x
            /\ SIMDPP_SSE_32_BITS(arch) =>
                  vx.bytes = SubSeq(call.x, 1, 4) \o SubSeq(call.x, 5, 8)
                             \o <<0,0,0,0>> \o <<0,0,0,0>>
            /\ call.id = 0 => call.res.bytes = call.x \o SubSeq(a, 9, 16)
            /\ call.id = 1 => call.res.bytes = SubSeq(a, 1, 8) \o call.x

\* C9 witness: the 32-bit-mode shuffle insert put x in lane 1
C9_Witness ==
    /\ Sse2Insert64
    /\ arch = "SSE2_32"
    /\ call.id = 1
    /\ call.arg.bytes = P1
    /\ call.res.bytes = SubSeq(P1, 1, 8) \o <<239, 205, 171, 137, 103, 69, 35, 1>>

\* C10: after any sequence of in-range inserts, every lane holds the scalar of
\* the most recent insert at that lane, or the lane of the initial vector if no
\* insert targeted it.
C10_LastWriteWins ==
    (ok /\ v.kind \in {"uint", "float"}) =>
        \A j \in 0..(Lanes(v) - 1) :
            el(v, j) = (IF last[j] = <<>> THEN el(v0, j) ELSE last[j])

\* C10 witness: on the narrow-merge backend a second insert overwrote, at the
\* same byte lane, the different scalar of an earlier insert
C10_Witness ==
    /\ ok
    /\ Sse2Insert8
    /\ nops >= 2
    /\ el(call.arg, call.id) # el(v0, call.id)
    /\ el(call.arg, call.id) # call.x
    /\ el(v, call.id) = call.x

====
